---- MODULE Spec2Model ----
(***************************************************************************)
(* github-repo-open-issue-trends: issues are classified into categories,   *)
(* bucketed into calendar periods, counted (opened / closed) and rendered  *)
(* as a tab-separated report with a cumulative column.                     *)
(*                                                                         *)
(* Spec        the whole run: PlotData::new, collect_data, run_main        *)
(* SpecOrder   the collection phase with a record of the issues analyzed   *)
(* SpecConfig  PlotData::new, categorize_issue and add_headers over every  *)
(*             bounded configuration and label sequence                    *)
(* SpecPeriod  the From<DateTime> conversions of period.rs and their Ord   *)
(***************************************************************************)
EXTENDS Integers, Sequences, FiniteSets, TLC

VARIABLES
    pc,                 \* position of the run
    granularity,        \* args.period
    label_category,     \* args.label_category, the ordered (label, category) pairs
    periods,            \* PlotData.periods
    label_to_category,  \* PlotData.label_to_category
    category_to_labels, \* PlotData.category_to_labels
    categories,         \* PlotData.categories
    page,               \* collect_data's page counter
    analyzed,           \* number of issues analyzed so far
    backdated,          \* history: an analyzed issue closed in a period before its own
    input,              \* history: how often each issue was analyzed (SpecOrder)
    sorted_periods,     \* run_main's sorted_periods
    total,              \* AccumulatedPeriodStatsFile.total
    row,                \* index into sorted_periods of run_main's outer row loop
    col,                \* index into tsv_columns of run_main's inner loops
    out,                \* the add_headers / add_row calls made, in order
    labels,             \* SpecConfig: the label nodes of the issue being categorized
    category,           \* SpecConfig: what categorize_issue returned
    ts,                 \* SpecPeriod: two timestamps
    ps                  \* SpecPeriod: their periods

vars == <<pc, granularity, label_category, periods, label_to_category,
          category_to_labels, categories, page, analyzed, backdated, input,
          sorted_periods, total, row, col, out, labels, category, ts, ps>>

----------------------------------------------------------------------------
(* Bounds *)

MaxConfig == 3      \* (label, category) pairs of a configuration in SpecConfig
MaxLabels == 2      \* label nodes of an issue in SpecConfig
MaxIssues == 3      \* issues analyzed in one run
MaxLogged == 2      \* issues analyzed in one run of SpecOrder
ArgsPages == 2      \* args.pages, its default value

None == "None"
Panic == "Panic"    \* the outcome of expect / unreachable!

LabelNames == {"a", "b"}
Wildcard == "*"
CategoryNames == {"x", "y"}

Years == {2023, 2024}
Months == 1..12

----------------------------------------------------------------------------
(* period.rs *)

\* A period is the pair of its struct's two fields in declaration order.
MonthFrom(value) == <<value.year, value.month>>

\* The bucket taken without the shift to a zero-based month.
TwoMonthsFromUnshifted(value) == <<value.year, value.month \div 2>>

TwoMonthsFrom(value) == <<value.year, (value.month - 1) \div 2>>

QuarterFrom(value) == <<value.year, (value.month - 1) \div 3>>

\* Year is not among the sources; it keeps the year alone.
YearFrom(value) == <<value.year, 0>>

Granularities == {"Month", "TwoMonths", "Quarter", "Year"}

PeriodFrom(g, value) ==
    CASE g = "Month" -> MonthFrom(value)
      [] g = "TwoMonths" -> TwoMonthsFrom(value)
      [] g = "Quarter" -> QuarterFrom(value)
      [] g = "Year" -> YearFrom(value)

\* #[derive(PartialOrd, Ord)]: lexicographic over the fields in declaration order.
PeriodLess(p, q) == p[1] < q[1] \/ (p[1] = q[1] /\ p[2] < q[2])

PeriodLeq(p, q) == p = q \/ PeriodLess(p, q)

----------------------------------------------------------------------------
(* Values *)

\* Option<DateTime>: <<>> is None, <<t>> is Some(t).
Some(t) == <<t>>

EmptyMap == [k \in {} |-> None]

\* HashMap::insert
MapInsert(m, k, v) == [x \in DOMAIN m \cup {k} |-> IF x = k THEN v ELSE m[x]]

\* One more occurrence of e in the bag b.
BagAdd(b, e) == IF e \in DOMAIN b THEN [b EXCEPT ![e] = @ + 1] ELSE MapInsert(b, e, 1)

\* Vec::contains
Contains(s, e) == \E i \in 1..Len(s) : s[i] = e

RECURSIVE SeqsUpTo(_, _)
SeqsUpTo(S, n) ==
    IF n = 0 THEN {<<>>}
    ELSE LET shorter == SeqsUpTo(S, n - 1)
         IN shorter \cup {Append(s, e) : s \in {t \in shorter : Len(t) = n - 1}, e \in S}

----------------------------------------------------------------------------
(* models.rs: Counters and PeriodData *)

CountersDefault == [Opened |-> 0, Closed |-> 0]

PeriodDataGet(data, cat, counter) ==
    IF cat \in DOMAIN data
    THEN IF counter \in DOMAIN data[cat] THEN data[cat][counter] ELSE 0
    ELSE 0

\* insert of fresh Counters in place of entry().or_default()
PeriodDataIncrementFresh(data, cat, counter) ==
    MapInsert(data, cat, [CountersDefault EXCEPT ![counter] = @ + 1])

PeriodDataIncrement(data, cat, counter) ==
    LET entry == IF cat \in DOMAIN data THEN data ELSE MapInsert(data, cat, CountersDefault)
    IN [entry EXCEPT ![cat][counter] = @ + 1]

----------------------------------------------------------------------------
(* main.rs: PlotData *)

NewStep(acc, label, cat) ==
    [categories |->
        IF ~Contains(acc.categories, cat) THEN Append(acc.categories, cat)
        ELSE acc.categories,
     label_to_category |-> MapInsert(acc.label_to_category, label, cat),
     category_to_labels |->
        IF cat \in DOMAIN acc.category_to_labels
        THEN [acc.category_to_labels EXCEPT ![cat] = Append(@, ",")]
        ELSE MapInsert(acc.category_to_labels, cat, <<label>>)]

RECURSIVE NewLoop(_, _, _)
NewLoop(cfg, i, acc) ==
    IF i > Len(cfg) THEN acc
    ELSE NewLoop(cfg, i + 1, NewStep(acc, cfg[i][1], cfg[i][2]))

PlotDataNew(cfg) ==
    NewLoop(cfg, 1, [categories |-> <<>>,
                     label_to_category |-> EmptyMap,
                     category_to_labels |-> EmptyMap])

\* insert of a fresh PeriodData in place of entry().or_default()
PlotDataIncrementFresh(pds, period, cat, counter) ==
    MapInsert(pds, period, PeriodDataIncrement(EmptyMap, cat, counter))

PlotDataIncrement(pds, period, cat, counter) ==
    LET entry == IF period \in DOMAIN pds THEN pds ELSE MapInsert(pds, period, EmptyMap)
    IN [entry EXCEPT ![period] = PeriodDataIncrement(@, cat, counter)]

\* The label nodes of an issue may be absent (None); flatten drops those.
Flatten(nodes) == SelectSeq(nodes, LAMBDA n : n # None)

RECURSIVE CategorizeLoop(_, _, _)
CategorizeLoop(l2c, labs, i) ==
    IF i > Len(labs) THEN None
    ELSE IF labs[i] \in DOMAIN l2c THEN l2c[labs[i]]
    ELSE CategorizeLoop(l2c, labs, i + 1)

\* The label loop without its break: the last matching label decides.
RECURSIVE CategorizeLoopNoBreak(_, _, _, _)
CategorizeLoopNoBreak(l2c, labs, i, found) ==
    IF i > Len(labs) THEN found
    ELSE CategorizeLoopNoBreak(l2c, labs, i + 1,
                               IF labs[i] \in DOMAIN l2c THEN l2c[labs[i]] ELSE found)

categorize_issue_no_break(l2c, nodes) ==
    LET found == CategorizeLoopNoBreak(l2c, Flatten(nodes), 1, None)
    IN IF found # None THEN found
       ELSE IF Wildcard \in DOMAIN l2c THEN l2c[Wildcard]
       ELSE Panic

categorize_issue(l2c, nodes) ==
    LET found == CategorizeLoop(l2c, Flatten(nodes), 1)
    IN IF found # None THEN found
       ELSE IF Wildcard \in DOMAIN l2c THEN l2c[Wildcard]
       ELSE Panic

\* closed_at without the fallback for a CLOSED issue that has no closed_at
closed_at_no_fallback(issue) ==
    IF issue.closed_at # <<>> THEN [tag |-> "Some", date |-> issue.closed_at[1]]
    ELSE IF issue.state = "Other" THEN [tag |-> Panic, date |-> issue.created_at]
    ELSE [tag |-> None, date |-> issue.created_at]

\* closed_at without the unreachable! branch
closed_at_no_unreachable(issue) ==
    IF issue.closed_at # <<>> THEN [tag |-> "Some", date |-> issue.closed_at[1]]
    ELSE IF issue.state = "CLOSED" THEN [tag |-> "Some", date |-> issue.created_at]
    ELSE [tag |-> None, date |-> issue.created_at]

closed_at(issue) ==
    IF issue.closed_at # <<>> THEN [tag |-> "Some", date |-> issue.closed_at[1]]
    ELSE IF issue.state = "CLOSED" THEN [tag |-> "Some", date |-> issue.created_at]
    ELSE IF issue.state = "Other" THEN [tag |-> Panic, date |-> issue.created_at]
    ELSE [tag |-> None, date |-> issue.created_at]

\* The periods after analyze_issue, and whether it returned (ok) or panicked.
analyze_issue(pds, l2c, g, issue) ==
    LET cat == categorize_issue(l2c, issue.labels)
        opened == PlotDataIncrement(pds, PeriodFrom(g, issue.created_at), cat, "Opened")
        closed == closed_at(issue)
    IN IF cat = Panic THEN [periods |-> pds, ok |-> FALSE]
       ELSE IF closed.tag = Panic THEN [periods |-> opened, ok |-> FALSE]
       ELSE IF closed.tag = "Some"
       THEN [periods |-> PlotDataIncrement(opened, PeriodFrom(g, closed.date), cat, "Closed"),
             ok |-> TRUE]
       ELSE [periods |-> opened, ok |-> TRUE]

----------------------------------------------------------------------------
(* tsv_output_file.rs and the column providers of run_main *)

\* run_main's tsv_columns: three PeriodColumns and the accumulated column,
\* each named by the prefix its headers carry.
TsvColumns == <<"Opened ", "Closed ", "Opened - Closed", "Open ">>

IsAccumulated(c) == c = Len(TsvColumns)

\* The closures run_main hands to PeriodColumns::new.
get_value_fn(c, data, cat) ==
    CASE c = 1 -> PeriodDataGet(data, cat, "Opened")
      [] c = 2 -> PeriodDataGet(data, cat, "Closed")
      [] c = 3 -> PeriodDataGet(data, cat, "Opened") - PeriodDataGet(data, cat, "Closed")

\* add_headers: one field per category, the labels text when the category has one.
HeaderField(prefix, cat, c2l) ==
    [prefix |-> prefix,
     category |-> cat,
     labels |-> IF cat \in DOMAIN c2l THEN <<" (">> \o c2l[cat] \o <<")">> ELSE <<>>]

add_headers(c, cats, c2l) ==
    [i \in 1..Len(cats) |-> HeaderField(TsvColumns[c], cats[i], c2l)]

\* PeriodStatsFile::add_row
PeriodAddRow(c, data, cats) ==
    [i \in 1..Len(cats) |-> get_value_fn(c, data, cats[i])]

\* The total overwritten by the period's delta instead of advanced by it.
AccumulatedStepOverwrite(acc, data, cat) ==
    LET delta == PeriodDataGet(data, cat, "Opened") - PeriodDataGet(data, cat, "Closed")
        tot == MapInsert(acc.total, cat, delta)
    IN [total |-> tot, values |-> Append(acc.values, tot[cat])]

\* The delta taken as closed - opened.
AccumulatedStepSwapped(acc, data, cat) ==
    LET delta == PeriodDataGet(data, cat, "Closed") - PeriodDataGet(data, cat, "Opened")
        tot == IF cat \in DOMAIN acc.total
               THEN [acc.total EXCEPT ![cat] = @ + delta]
               ELSE MapInsert(acc.total, cat, delta)
    IN [total |-> tot, values |-> Append(acc.values, tot[cat])]

\* AccumulatedPeriodStatsFile::add_row, one category of its loop
AccumulatedStep(acc, data, cat) ==
    LET delta == PeriodDataGet(data, cat, "Opened") - PeriodDataGet(data, cat, "Closed")
        tot == IF cat \in DOMAIN acc.total
               THEN [acc.total EXCEPT ![cat] = @ + delta]
               ELSE MapInsert(acc.total, cat, delta)
    IN [total |-> tot, values |-> Append(acc.values, tot[cat])]

RECURSIVE AccumulatedLoop(_, _, _, _)
AccumulatedLoop(acc, data, cats, i) ==
    IF i > Len(cats) THEN acc
    ELSE AccumulatedLoop(AccumulatedStep(acc, data, cats[i]), data, cats, i + 1)

AccumulatedAddRow(tot, data, cats) ==
    AccumulatedLoop([total |-> tot, values |-> <<>>], data, cats, 1)

\* The least period of a non-empty set under the derived Ord.
MinPeriod(S) == CHOOSE p \in S : \A q \in S : PeriodLeq(p, q)

\* The keys sorted in descending order.
RECURSIVE SortPeriodsDescending(_)
SortPeriodsDescending(S) ==
    IF S = {} THEN <<>>
    ELSE SortPeriodsDescending(S \ {MinPeriod(S)}) \o <<MinPeriod(S)>>

\* keys().collect() followed by sort()
RECURSIVE SortPeriods(_)
SortPeriods(S) ==
    IF S = {} THEN <<>>
    ELSE <<MinPeriod(S)>> \o SortPeriods(S \ {MinPeriod(S)})

----------------------------------------------------------------------------
(* Inputs *)

Times == {[year |-> 2023, month |-> 12],
          [year |-> 2024, month |-> 2],
          [year |-> 2024, month |-> 3]}

IssueStates == {"OPEN", "CLOSED", "Other"}

Issues == [created_at : Times,
           closed_at : {<<>>} \cup {Some(t) : t \in Times},
           state : IssueStates,
           labels : {<<>>, <<"a">>}]

\* The configurations of a whole run: with and without the wildcard.
RunConfigs == {<<<<"a", "x">>, <<Wildcard, "y">>>>,
               <<<<Wildcard, "y">>>>,
               <<<<"a", "x">>>>}

ConfigPairs == (LabelNames \cup {Wildcard}) \X CategoryNames

AllTimes == [year : Years, month : Months]

----------------------------------------------------------------------------
(* The run *)

InitRest ==
    /\ periods = EmptyMap
    /\ label_to_category = EmptyMap
    /\ category_to_labels = EmptyMap
    /\ categories = <<>>
    /\ page = 0
    /\ analyzed = 0
    /\ backdated = FALSE
    /\ input = EmptyMap
    /\ sorted_periods = <<>>
    /\ total = EmptyMap
    /\ row = 0
    /\ col = 0
    /\ out = <<>>
    /\ category = None

Init ==
    /\ pc = "new"
    /\ granularity \in Granularities
    /\ label_category \in RunConfigs
    /\ labels = <<>>
    /\ ts = <<>>
    /\ ps = <<>>
    /\ InitRest

\* collect_data: PlotData::new(args)
New ==
    /\ pc = "new"
    /\ LET data == PlotDataNew(label_category)
       IN /\ categories' = data.categories
          /\ label_to_category' = data.label_to_category
          /\ category_to_labels' = data.category_to_labels
    /\ pc' = "loop"
    /\ UNCHANGED <<granularity, label_category, periods, page, analyzed, backdated,
                   input, sorted_periods, total, row, col, out, labels, category, ts, ps>>

\* collect_data returns and run_main sorts the periods and creates the columns.
Collected ==
    /\ page' = 0
    /\ sorted_periods' = SortPeriods(DOMAIN periods)
    /\ total' = EmptyMap
    /\ col' = 1
    /\ pc' = "headers"

\* collect_data: the head of the page loop
NextPage ==
    /\ pc = "loop"
    /\ IF page + 1 > ArgsPages
       THEN Collected
       ELSE /\ page' = page + 1
            /\ pc' = "page"
            /\ UNCHANGED <<sorted_periods, total, col>>
    /\ UNCHANGED <<granularity, label_category, periods, label_to_category,
                   category_to_labels, categories, analyzed, backdated, input,
                   row, out, labels, category, ts, ps>>

\* An issue closes in a period before the one it was opened in.
Backdated(g, issue) ==
    /\ closed_at(issue).tag = "Some"
    /\ PeriodLess(PeriodFrom(g, closed_at(issue).date), PeriodFrom(g, issue.created_at))

\* analyze_issues: one node of the page
Analyze(issue) ==
    /\ pc = "page"
    /\ analyzed < MaxIssues
    /\ LET r == analyze_issue(periods, label_to_category, granularity, issue)
       IN /\ periods' = r.periods
          /\ pc' = IF r.ok THEN "page" ELSE "panicked"
          /\ backdated' = (backdated \/ (r.ok /\ Backdated(granularity, issue)))
    /\ analyzed' = analyzed + 1
    /\ UNCHANGED <<granularity, label_category, label_to_category, category_to_labels,
                   categories, page, sorted_periods, total, row, col, out, labels,
                   category, ts, ps>>

AnalyzeIssue == \E issue \in Issues : Analyze(issue) /\ UNCHANGED input

\* collect_data: the page is done, has_next_page decides
EndPage ==
    /\ pc = "page"
    /\ \E has_next_page \in BOOLEAN :
          IF has_next_page
          THEN pc' = "loop" /\ UNCHANGED <<page, sorted_periods, total, col>>
          ELSE Collected
    /\ UNCHANGED <<granularity, label_category, periods, label_to_category,
                   category_to_labels, categories, analyzed, backdated, input,
                   row, out, labels, category, ts, ps>>

Call(kind, c, period, fields) ==
    [kind |-> kind, col |-> c, period |-> period, fields |-> fields]

\* run_main: add headers to all columns
AddHeaders ==
    /\ pc = "headers"
    /\ out' = Append(out, Call("headers", col, <<>>,
                               add_headers(col, categories, category_to_labels)))
    /\ IF col < Len(TsvColumns)
       THEN col' = col + 1 /\ UNCHANGED <<pc, row>>
       ELSE /\ col' = 1
            /\ row' = 1
            /\ pc' = IF sorted_periods = <<>> THEN "done" ELSE "rows"
    /\ UNCHANGED <<granularity, label_category, periods, label_to_category,
                   category_to_labels, categories, page, analyzed, backdated, input,
                   sorted_periods, total, labels, category, ts, ps>>

\* run_main: one add_row call of the row loops
AddRow ==
    /\ pc = "rows"
    /\ LET period == sorted_periods[row]
           data == periods[period]
           acc == AccumulatedAddRow(total, data, categories)
       IN IF IsAccumulated(col)
          THEN /\ total' = acc.total
               /\ out' = Append(out, Call("row", col, period, acc.values))
          ELSE /\ total' = total
               /\ out' = Append(out, Call("row", col, period,
                                          PeriodAddRow(col, data, categories)))
    /\ IF col < Len(TsvColumns)
       THEN col' = col + 1 /\ UNCHANGED <<pc, row>>
       ELSE /\ col' = 1
            /\ row' = row + 1
            /\ pc' = IF row = Len(sorted_periods) THEN "done" ELSE "rows"
    /\ UNCHANGED <<granularity, label_category, periods, label_to_category,
                   category_to_labels, categories, page, analyzed, backdated, input,
                   sorted_periods, labels, category, ts, ps>>

Next == New \/ NextPage \/ AnalyzeIssue \/ EndPage \/ AddHeaders \/ AddRow

Spec == Init /\ [][Next]_vars

----------------------------------------------------------------------------
(* The collection phase, with the issues analyzed on record *)

AnalyzeIssueLogged ==
    /\ analyzed < MaxLogged
    /\ \E issue \in Issues : Analyze(issue) /\ input' = BagAdd(input, issue)

NextOrder == New \/ NextPage \/ AnalyzeIssueLogged \/ EndPage

SpecOrder == Init /\ [][NextOrder]_vars

----------------------------------------------------------------------------
(* PlotData::new, categorize_issue and add_headers over every configuration *)

InitConfig ==
    /\ pc = "new"
    /\ granularity = "Month"
    /\ label_category \in SeqsUpTo(ConfigPairs, MaxConfig)
    /\ labels \in SeqsUpTo(LabelNames \cup {None}, MaxLabels)
    /\ ts = <<>>
    /\ ps = <<>>
    /\ InitRest

Categorize ==
    /\ pc = "loop"
    /\ category' = categorize_issue(label_to_category, labels)
    /\ pc' = IF category' = Panic THEN "panicked" ELSE "categorized"
    /\ UNCHANGED <<granularity, label_category, periods, label_to_category,
                   category_to_labels, categories, page, analyzed, backdated, input,
                   sorted_periods, total, row, col, out, labels, ts, ps>>

\* The accumulated column's add_headers
Headers ==
    /\ pc = "categorized"
    /\ out' = <<Call("headers", Len(TsvColumns), <<>>,
                     add_headers(Len(TsvColumns), categories, category_to_labels))>>
    /\ pc' = "done"
    /\ UNCHANGED <<granularity, label_category, periods, label_to_category,
                   category_to_labels, categories, page, analyzed, backdated, input,
                   sorted_periods, total, row, col, labels, category, ts, ps>>

NextConfig == New \/ Categorize \/ Headers

SpecConfig == InitConfig /\ [][NextConfig]_vars

----------------------------------------------------------------------------
(* The conversions of period.rs over every pair of timestamps *)

InitPeriod ==
    /\ pc = "period"
    /\ granularity \in Granularities
    /\ label_category = <<>>
    /\ labels = <<>>
    /\ ts \in AllTimes \X AllTimes
    /\ ps = <<>>
    /\ InitRest

Convert ==
    /\ pc = "period"
    /\ ps' = <<PeriodFrom(granularity, ts[1]), PeriodFrom(granularity, ts[2])>>
    /\ pc' = "done"
    /\ UNCHANGED <<granularity, label_category, periods, label_to_category,
                   category_to_labels, categories, page, analyzed, backdated, input,
                   sorted_periods, total, row, col, out, labels, category, ts>>

NextPeriod == Convert

SpecPeriod == InitPeriod /\ [][NextPeriod]_vars

----------------------------------------------------------------------------
(* Properties *)

\* The reorderings of a configuration.
Reorderings(cfg) ==
    {[i \in 1..Len(cfg) |-> cfg[f[i]]] : f \in Permutations(1..Len(cfg))}

DistinctLabels(cfg) ==
    \A i, j \in 1..Len(cfg) : i # j => cfg[i][1] # cfg[j][1]

\* The category of the earliest of the issue's labels that is a key of the table,
\* the wildcard's category when there is none.
FirstMatch(l2c, nodes) ==
    LET labs == Flatten(nodes)
        hits == {i \in 1..Len(labs) : labs[i] \in DOMAIN l2c}
    IN IF hits = {} THEN l2c[Wildcard]
       ELSE l2c[labs[CHOOSE i \in hits : \A j \in hits : i <= j]]

\* C1: with a "*" entry in the table, categorize_issue returns the category of the
\* earliest label of the issue that is a key of the table, and the category of "*"
\* when no label of the issue is a key; configuring the same entries in another
\* order gives the same result.
C1_FirstMatchWins ==
    (pc \in {"categorized", "done", "panicked"} /\ Wildcard \in DOMAIN label_to_category)
    => /\ category = FirstMatch(label_to_category, labels)
       /\ DistinctLabels(label_category)
          => \A cfg \in Reorderings(label_category) :
                categorize_issue(PlotDataNew(cfg).label_to_category, labels) = category

\* An issue carrying two configured labels of different categories has been
\* categorized by the first, and not into the wildcard's category.
C1_Witness ==
    /\ pc = "done"
    /\ Wildcard \in DOMAIN label_to_category
    /\ Len(labels) = 2
    /\ labels[1] \in DOMAIN label_to_category
    /\ labels[2] \in DOMAIN label_to_category
    /\ label_to_category[labels[1]] # label_to_category[labels[2]]
    /\ category = label_to_category[labels[1]]
    /\ category # label_to_category[Wildcard]

TimeLeq(t1, t2) == t1.year < t2.year \/ (t1.year = t2.year /\ t1.month <= t2.month)

\* The bucket the claim gives a month under each granularity, and the bucket range.
Bucket(g, m) ==
    CASE g = "Month" -> m
      [] g = "TwoMonths" -> (m - 1) \div 2
      [] g = "Quarter" -> (m - 1) \div 3

Buckets(g) ==
    CASE g = "Month" -> 1..12
      [] g = "TwoMonths" -> 0..5
      [] g = "Quarter" -> 0..3

\* C7: under Month, TwoMonths and Quarter a month m maps to bucket m, (m-1) div 2
\* and (m-1) div 3, a valid bucket; timestamps in chronological (year, month) order
\* have periods in the same order under the derived Ord; and two periods are equal
\* exactly when the years are equal and the months share a bucket.
C7_BucketingKeepsOrder ==
    (pc = "done" /\ granularity \in {"Month", "TwoMonths", "Quarter"})
    => LET t1 == ts[1]
           t2 == ts[2]
           b1 == Bucket(granularity, t1.month)
           b2 == Bucket(granularity, t2.month)
       IN /\ ps[1] = <<t1.year, b1>>
          /\ ps[2] = <<t2.year, b2>>
          /\ b1 \in Buckets(granularity)
          /\ TimeLeq(t1, t2) => PeriodLeq(ps[1], ps[2])
          /\ (ps[1] = ps[2]) <=> (t1.year = t2.year /\ b1 = b2)
          /\ PeriodLeq(ps[1], ps[2]) \/ PeriodLeq(ps[2], ps[1])

\* February and March of one year fall into consecutive two-month buckets.
C7_Witness ==
    /\ pc = "done"
    /\ granularity = "TwoMonths"
    /\ ts[1].year = ts[2].year
    /\ ts[1].month = 2
    /\ ts[2].month = 3
    /\ PeriodLess(ps[1], ps[2])

\* The labels a configuration maps to a category, in configuration order.
MappedLabels(cfg, cat) ==
    LET pairs == SelectSeq(cfg, LAMBDA pair : pair[2] = cat)
    IN [i \in 1..Len(pairs) |-> pairs[i][1]]

RECURSIVE Join(_)
Join(s) ==
    IF Len(s) <= 1 THEN s ELSE <<s[1], ",">> \o Join(Tail(s))

\* The categories of a configuration, once each, in first-seen order.
FirstSeen(cfg) ==
    LET firsts == {i \in 1..Len(cfg) : \A j \in 1..(i - 1) : cfg[j][2] # cfg[i][2]}
        nth[k \in 1..Cardinality(firsts)] ==
            CHOOSE i \in firsts : Cardinality({j \in firsts : j <= i}) = k
    IN [k \in 1..Cardinality(firsts) |-> cfg[nth[k]][2]]

\* C8: the header of the accumulated column has one field per category, in
\* first-seen configuration order, and the parenthesized text of each lists every
\* label the configuration maps to that category, in configuration order.
C8_HeaderListsEveryLabel ==
    pc = "done"
    => LET fields == out[1].fields
           cats == FirstSeen(label_category)
       IN /\ Len(fields) = Len(cats)
          /\ \A i \in 1..Len(cats) :
                /\ fields[i].category = cats[i]
                /\ fields[i].labels =
                      <<" (">> \o Join(MappedLabels(label_category, cats[i])) \o <<")">>


----------------------------------------------------------------------------
(* Properties of the aggregation *)

Kinds == {"Opened", "Closed"}

\* The counter of (period, category, kind), zero when it was never incremented.
Count(pds, p, cat, kind) ==
    IF p \in DOMAIN pds THEN PeriodDataGet(pds[p], cat, kind) ELSE 0

\* The effective close time the claim gives an issue of a recognized state.
CloseTime(issue) ==
    IF issue.closed_at # <<>> THEN issue.closed_at
    ELSE IF issue.state = "CLOSED" THEN Some(issue.created_at)
    ELSE <<>>

Indicator(b) == IF b THEN 1 ELSE 0

AnalyzeEffect(issue) ==
    LET cat == categorize_issue(label_to_category, issue.labels)
        created == PeriodFrom(granularity, issue.created_at)
        close == CloseTime(issue)
        universe == DOMAIN periods \cup DOMAIN periods'
                    \cup {PeriodFrom(granularity, t) : t \in Times}
    IN \A p \in universe, c \in CategoryNames, kind \in Kinds :
          Count(periods', p, c, kind) =
             Count(periods, p, c, kind)
             + Indicator(kind = "Opened" /\ p = created /\ c = cat)
             + Indicator(/\ kind = "Closed"
                         /\ close # <<>>
                         /\ p = PeriodFrom(granularity, close[1])
                         /\ c = cat)

\* The issue a step of SpecOrder put on record.
JustAnalyzed ==
    {issue \in DOMAIN input' :
        input'[issue] > (IF issue \in DOMAIN input THEN input[issue] ELSE 0)}

\* C2: analyzing an issue of a recognized state that has a category adds one to
\* opened(period(created_at), category) and, when the issue has an effective close
\* time (closed_at, else created_at for a CLOSED issue, else none), one to
\* closed(period(close time), category); no other counter changes.
C2_AnalyzeIssueEffect ==
    [][\A issue \in JustAnalyzed :
          (/\ Analyze(issue)
           /\ issue.state \in {"OPEN", "CLOSED"}
           /\ categorize_issue(label_to_category, issue.labels) # Panic)
          => (pc' = "page" /\ AnalyzeEffect(issue))]_vars

\* A CLOSED issue without closed_at was analyzed alone: opened and closed of the
\* period it was created in are both one.
C2_Witness ==
    /\ pc = "page"
    /\ analyzed = 1
    /\ \E issue \in DOMAIN input :
          /\ issue.state = "CLOSED"
          /\ issue.closed_at = <<>>
          /\ \E c \in CategoryNames :
                /\ Count(periods, PeriodFrom(granularity, issue.created_at), c, "Opened") = 1
                /\ Count(periods, PeriodFrom(granularity, issue.created_at), c, "Closed") = 1

NoWildcard == \A i \in 1..Len(label_category) : label_category[i][1] # Wildcard

\* C3: with no "*" entry in the configuration the run fails before an issue is
\* analyzed and before a counter is incremented: a run that has not failed has
\* analyzed no issue, incremented no counter and written no report.
C3_MissingWildcardFailsFirst ==
    (NoWildcard /\ pc # "panicked")
    => (analyzed = 0 /\ periods = EmptyMap /\ pc \notin {"headers", "rows", "done"})

\* C4 as claimed: analyzing an issue of an unrecognized state aborts the run,
\* whether or not closed_at is present.
C4_OtherStateAlwaysAborts ==
    [][\A issue \in JustAnalyzed :
          (/\ Analyze(issue)
           /\ issue.state = "Other")
          => pc' = "panicked"]_vars

\* C4: analyzing an issue of an unrecognized state that has no closed_at aborts
\* the run, for good; with closed_at present the issue is analyzed as a closed one
\* whatever its state.
C4_OtherStateWithoutClosedAtAborts ==
    [][/\ \A issue \in JustAnalyzed :
             (/\ Analyze(issue)
              /\ issue.state = "Other")
             => IF issue.closed_at = <<>>
                THEN pc' = "panicked"
                ELSE categorize_issue(label_to_category, issue.labels) # Panic
                     => (pc' = "page" /\ AnalyzeEffect(issue))
       /\ pc = "panicked" => pc' = "panicked"]_vars

\* The run was aborted by an issue of an unrecognized state without closed_at,
\* after its opened counter was incremented.
C4_Witness ==
    /\ pc = "panicked"
    /\ Wildcard \in DOMAIN label_to_category
    /\ periods # EmptyMap
    /\ \E issue \in DOMAIN input : issue.state = "Other" /\ issue.closed_at = <<>>

RECURSIVE SumOver(_, _)
SumOver(S, f) ==
    IF S = {} THEN 0
    ELSE LET e == CHOOSE x \in S : TRUE IN f[e] + SumOver(S \ {e}, f)

\* The aggregated state as a function of the issues on record alone: every issue
\* counts, as often as it was analyzed, once as opened in the period it was created
\* in and, when it has a close time, once as closed in the period of that time.
ExpectedPeriods ==
    LET issues == DOMAIN input
        cat == [i \in issues |-> categorize_issue(label_to_category, i.labels)]
        opened == [i \in issues |-> PeriodFrom(granularity, i.created_at)]
        closed == [i \in issues |->
                      IF closed_at(i).tag = "Some"
                      THEN <<PeriodFrom(granularity, closed_at(i).date)>>
                      ELSE <<>>]
        count(p, c, kind) ==
            SumOver(issues,
                    [i \in issues |->
                        input[i] * Indicator(/\ cat[i] = c
                                             /\ IF kind = "Opened" THEN opened[i] = p
                                                ELSE closed[i] = <<p>>)])
        active == {<<opened[i], cat[i]>> : i \in issues}
                  \cup {<<closed[i][1], cat[i]>> : i \in {j \in issues : closed[j] # <<>>}}
    IN [p \in {e[1] : e \in active} |->
          [c \in {e[2] : e \in {x \in active : x[1] = p}} |->
              [Opened |-> count(p, c, "Opened"), Closed |-> count(p, c, "Closed")]]]

\* C6: the counters and the set of periods depend only on which issues were
\* analyzed and how often, not on their order or on how they were split into pages.
C6_OrderIndependent ==
    pc \in {"loop", "page", "headers"} => periods = ExpectedPeriods

\* Two different issues that count for the same counter were analyzed.
C6_Witness ==
    /\ pc = "headers"
    /\ Cardinality(DOMAIN input) = 2
    /\ \E p \in DOMAIN periods, c \in CategoryNames : Count(periods, p, c, "Opened") = 2
    /\ \E p \in DOMAIN periods, c \in CategoryNames : Count(periods, p, c, "Closed") = 1

----------------------------------------------------------------------------
(* Properties of the report *)

Rows(c) == SelectSeq(out, LAMBDA call : call.kind = "row" /\ call.col = c)

\* opened - closed of a period and category
Diff(p, cat) == Count(periods, p, cat, "Opened") - Count(periods, p, cat, "Closed")

RECURSIVE SumDiff(_, _, _)
SumDiff(rows, k, cat) ==
    IF k = 0 THEN 0 ELSE Diff(rows[k].period, cat) + SumDiff(rows, k - 1, cat)

\* (opened, closed) of the category "bugs" in the two periods of the example
ExampleFirst == [bugs |-> [Opened |-> 5, Closed |-> 2]]
ExampleSecond == [bugs |-> [Opened |-> 1, Closed |-> 4]]

\* C5: the k-th add_row call of the cumulative column emits, for every category,
\* the sum of opened - closed over the periods of its first k calls, starting from
\* zero; (5, 2) then (1, 4) emits 3 then 0.
C5_CumulativeIsRunningSum ==
    LET rows == Rows(Len(TsvColumns))
        first == AccumulatedAddRow(EmptyMap, ExampleFirst, <<"bugs">>)
        second == AccumulatedAddRow(first.total, ExampleSecond, <<"bugs">>)
    IN /\ \A k \in 1..Len(rows) :
             /\ Len(rows[k].fields) = Len(categories)
             /\ \A i \in 1..Len(categories) :
                   rows[k].fields[i] = SumDiff(rows, k, categories[i])
       /\ first.values = <<3>>
       /\ second.values = <<0>>

\* The second cumulative row carries a non-zero total over from the first.
C5_Witness ==
    /\ pc = "done"
    /\ Len(Rows(Len(TsvColumns))) >= 2
    /\ \E i \in 1..Len(categories) :
          /\ Rows(Len(TsvColumns))[1].fields[i] # 0
          /\ Rows(Len(TsvColumns))[2].fields[i] # Diff(Rows(Len(TsvColumns))[2].period,
                                                       categories[i])
          /\ Diff(Rows(Len(TsvColumns))[2].period, categories[i]) # 0

NonNegative(c) ==
    \A k \in 1..Len(Rows(c)) : \A i \in 1..Len(Rows(c)[k].fields) : Rows(c)[k].fields[i] >= 0

\* C9 as claimed: every raw opened value, raw closed value and cumulative value
\* written is >= 0.
C9_OnlyDifferencesNegative ==
    NonNegative(1) /\ NonNegative(2) /\ NonNegative(Len(TsvColumns))

\* C9: every raw opened and raw closed value written is >= 0, and so is every
\* cumulative value when no analyzed issue closes in a period before the one it
\* was opened in.
C9_RawCountsNonNegative ==
    /\ NonNegative(1)
    /\ NonNegative(2)
    /\ ~backdated => NonNegative(Len(TsvColumns))

\* A report without a backdated issue whose difference column holds a negative value.
C9_Witness ==
    /\ pc = "done"
    /\ ~backdated
    /\ ~NonNegative(3)
    /\ Len(Rows(Len(TsvColumns))) >= 2

\* The k-th period of the aggregated state in ascending order.
KthPeriod(k) ==
    CHOOSE p \in DOMAIN periods :
        Cardinality({q \in DOMAIN periods : PeriodLess(q, p)}) = k - 1

\* C10: the headers of all columns come first, one call per column; then the
\* periods of the aggregated state are visited once each in strictly ascending
\* order, every column's add_row being called once per visit with that period and
\* its data; a finished report has visited every period.
C10_ReportOrder ==
    LET n == Len(TsvColumns)
    IN /\ pc \in {"new", "loop", "page", "panicked"} => out = <<>>
       /\ pc = "headers" => Len(out) = col - 1
       /\ pc = "rows" => Len(out) = n + n * (row - 1) + (col - 1)
       /\ pc = "done" => Len(out) = n + n * Cardinality(DOMAIN periods)
       /\ \A i \in 1..Len(out) :
             IF i <= n
             THEN out[i].kind = "headers" /\ out[i].col = i
             ELSE LET visit == ((i - n - 1) \div n) + 1
                      c == ((i - n - 1) % n) + 1
                  IN /\ out[i].kind = "row"
                     /\ out[i].col = c
                     /\ out[i].period = KthPeriod(visit)
                     /\ ~IsAccumulated(c)
                        => out[i].fields = PeriodAddRow(c, periods[out[i].period], categories)
       /\ \A k \in 2..Len(Rows(n)) : PeriodLess(Rows(n)[k - 1].period, Rows(n)[k].period)

\* A finished report over three periods.
C10_Witness ==
    /\ pc = "done"
    /\ Cardinality(DOMAIN periods) = 3
    /\ Len(out) = 4 * Len(TsvColumns)

----------------------------------------------------------------------------
(* Properties of the aggregated state *)

\* The (period, category, kind) counters the issues on record incremented: opened
\* for every issue that got a category, closed for those that also got a close time.
Incremented ==
    LET counted == {i \in DOMAIN input :
                       categorize_issue(label_to_category, i.labels) # Panic}
        closing == {i \in counted : closed_at(i).tag = "Some"}
    IN {<<PeriodFrom(granularity, i.created_at),
          categorize_issue(label_to_category, i.labels), "Opened">> : i \in counted}
       \cup {<<PeriodFrom(granularity, closed_at(i).date),
               categorize_issue(label_to_category, i.labels), "Closed">> : i \in closing}

AggregatedStateInvariant ==
    LET incremented == Incremented
    IN /\ DOMAIN periods = {e[1] : e \in incremented}
       /\ \A p \in DOMAIN periods : \A c \in DOMAIN periods[p] :
             \A kind \in DOMAIN periods[p][c] : periods[p][c][kind] >= 0
       /\ \A p \in DOMAIN periods, c \in CategoryNames \cup {"unconfigured"}, kind \in Kinds :
             IF <<p, c, kind>> \in incremented
             THEN PeriodDataGet(periods[p], c, kind) > 0
             ELSE PeriodDataGet(periods[p], c, kind) = 0
       /\ \A c \in CategoryNames, kind \in Kinds : PeriodDataGet(EmptyMap, c, kind) = 0

AggregatedStateStep ==
    /\ DOMAIN periods \subseteq DOMAIN periods'
    /\ \A p \in DOMAIN periods : \A c \in DOMAIN periods[p] : \A kind \in Kinds :
          Count(periods', p, c, kind) >= periods[p][c][kind]

\* C11: the period keys are exactly the periods that received an opened or closed
\* increment; every stored counter is >= 0; a counter that was never incremented,
\* stored or not, reads as 0; and from one state to the next no counter decreases
\* and no period key is dropped.
C11_AggregatedState ==
    []AggregatedStateInvariant /\ [][AggregatedStateStep]_vars

\* Two issues were analyzed: a counter stands at 2, a second period holds a stored
\* counter that was never incremented, and a category is absent from a period.
C11_Witness ==
    /\ analyzed = 2
    /\ Cardinality(DOMAIN periods) = 2
    /\ \E p \in DOMAIN periods : \E c \in DOMAIN periods[p] : periods[p][c].Opened = 2
    /\ \E p \in DOMAIN periods : \E c \in DOMAIN periods[p] :
          periods[p][c].Opened = 0 /\ periods[p][c].Closed = 1
    /\ \E p \in DOMAIN periods : DOMAIN periods[p] # CategoryNames

====
